---- MODULE Spec2Model ----
(***************************************************************************)
(* Research progress page of ag-ui-langgraph-app.                          *)
(*                                                                         *)
(* The page (src/app/copilotkit/page.tsx, and its status-gated variant)    *)
(* holds a mutable flag isResearchInProgress, reacts to node-transition    *)
(* events with a delayed stop, and on every render derives the workflow    *)
(* steps and the log entries of the Progress component from the agent      *)
(* state.                                                                  *)
(*                                                                         *)
(* Strings are sequences of one-character strings, so that split, charAt,  *)
(* toUpperCase, slice, join and substring are computed and not assumed.    *)
(***************************************************************************)
EXTENDS Integers, Sequences, FiniteSets, TLC

(***************************************************************************)
(* Bounds of the model.                                                    *)
(***************************************************************************)
\* No agent event arrives after MaxTime (ms); pending timers still run out.
MaxTime == 400
\* Runs the user starts.
MaxRuns == 2
\* Terminal-node events delivered over the whole session.
MaxEnds == 2
\* Longest list of log entries handed to Progress directly.
MaxLogs == 5

(***************************************************************************)
(* JavaScript values.                                                      *)
(***************************************************************************)
\* undefined / null: distinct from every string, whose elements are single
\* characters.
Undefined == <<"undefined">>

\* The value of an own-property lookup that found an inherited member of
\* Object.prototype (a function, not a string).
NotAString == <<"function">>

\* JavaScript truthiness of a string-or-undefined value.
Truthy(v) == v # Undefined /\ v # <<>>

\* a || b
OrElse(a, b) == IF Truthy(a) THEN a ELSE b

LowerCase ==
  <<"a","b","c","d","e","f","g","h","i","j","k","l","m",
    "n","o","p","q","r","s","t","u","v","w","x","y","z">>
UpperCase ==
  <<"A","B","C","D","E","F","G","H","I","J","K","L","M",
    "N","O","P","Q","R","S","T","U","V","W","X","Y","Z">>

\* String.prototype.toUpperCase on a string of at most one character.
toUpperCase(s) ==
  [i \in 1..Len(s) |->
     IF \E k \in 1..Len(LowerCase) : LowerCase[k] = s[i]
     THEN UpperCase[CHOOSE k \in 1..Len(LowerCase) : LowerCase[k] = s[i]]
     ELSE s[i]]

\* String.prototype.charAt(0)
charAt0(s) == IF Len(s) = 0 THEN <<>> ELSE <<s[1]>>

\* String.prototype.slice(1)
slice1(s) == IF Len(s) <= 1 THEN <<>> ELSE SubSeq(s, 2, Len(s))

\* String.prototype.substring(0, n)
substring0(s, n) == IF Len(s) <= n THEN s ELSE SubSeq(s, 1, n)

\* String.prototype.split(sep) for a one-character separator.
RECURSIVE SplitFrom(_, _, _, _)
SplitFrom(s, sep, i, word) ==
  IF i > Len(s) THEN <<word>>
  ELSE IF s[i] = sep THEN <<word>> \o SplitFrom(s, sep, i + 1, <<>>)
  ELSE SplitFrom(s, sep, i + 1, Append(word, s[i]))
split(s, sep) == SplitFrom(s, sep, 1, <<>>)

\* Array.prototype.join(sep)
RECURSIVE join(_, _)
join(words, sep) ==
  IF Len(words) = 0 THEN <<>>
  ELSE IF Len(words) = 1 THEN words[1]
  ELSE words[1] \o sep \o join(Tail(words), sep)

\* Array.prototype.indexOf: first index (from 0) of v, or -1.
indexOf(arr, v) ==
  IF \E i \in 1..Len(arr) : arr[i] = v
  THEN (CHOOSE i \in 1..Len(arr) :
          arr[i] = v /\ \A j \in 1..(i - 1) : arr[j] # v) - 1
  ELSE -1

(***************************************************************************)
(* Phase and stage names.                                                  *)
(***************************************************************************)
idle == <<"i", "d", "l", "e">>
initialized == <<"i", "n", "i", "t", "i", "a", "l", "i", "z", "e", "d">>
gathering_information == <<"g", "a", "t", "h", "e", "r", "i", "n", "g", "_", "i", "n", "f", "o", "r", "m", "a", "t", "i", "o", "n">>
analyzing_information == <<"a", "n", "a", "l", "y", "z", "i", "n", "g", "_", "i", "n", "f", "o", "r", "m", "a", "t", "i", "o", "n">>
generating_report == <<"g", "e", "n", "e", "r", "a", "t", "i", "n", "g", "_", "r", "e", "p", "o", "r", "t">>
completed == <<"c", "o", "m", "p", "l", "e", "t", "e", "d">>

not_started == <<"n", "o", "t", "_", "s", "t", "a", "r", "t", "e", "d">>
searching == <<"s", "e", "a", "r", "c", "h", "i", "n", "g">>
organizing_data == <<"o", "r", "g", "a", "n", "i", "z", "i", "n", "g", "_", "d", "a", "t", "a">>
creating_detailed_report == <<"c", "r", "e", "a", "t", "i", "n", "g", "_", "d", "e", "t", "a", "i", "l", "e", "d", "_", "r", "e", "p", "o", "r", "t">>
outlining_report == <<"o", "u", "t", "l", "i", "n", "i", "n", "g", "_", "r", "e", "p", "o", "r", "t">>
drafting_executive_summary == <<"d", "r", "a", "f", "t", "i", "n", "g", "_", "e", "x", "e", "c", "u", "t", "i", "v", "e", "_", "s", "u", "m", "m", "a", "r", "y">>
writing_introduction == <<"w", "r", "i", "t", "i", "n", "g", "_", "i", "n", "t", "r", "o", "d", "u", "c", "t", "i", "o", "n">>
compiling_key_findings == <<"c", "o", "m", "p", "i", "l", "i", "n", "g", "_", "k", "e", "y", "_", "f", "i", "n", "d", "i", "n", "g", "s">>
developing_analysis == <<"d", "e", "v", "e", "l", "o", "p", "i", "n", "g", "_", "a", "n", "a", "l", "y", "s", "i", "s">>
forming_conclusions == <<"f", "o", "r", "m", "i", "n", "g", "_", "c", "o", "n", "c", "l", "u", "s", "i", "o", "n", "s">>
finalizing_report == <<"f", "i", "n", "a", "l", "i", "z", "i", "n", "g", "_", "r", "e", "p", "o", "r", "t">>
report_complete == <<"r", "e", "p", "o", "r", "t", "_", "c", "o", "m", "p", "l", "e", "t", "e">>

\* The fixed phase sequence of the step list.
allPhases ==
  <<initialized, gathering_information, analyzing_information,
    generating_report, completed>>

\* The description chosen by the switch on stage of generating_report.
generatingReportDetails(stage) ==
  CASE stage = creating_detailed_report -> <<"C", "r", "e", "a", "t", "i", "n", "g", " ", "r", "e", "p", "o", "r", "t", " ", "o", "u", "t", "l", "i", "n", "e">>
    [] stage = outlining_report -> <<"C", "r", "e", "a", "t", "i", "n", "g", " ", "r", "e", "p", "o", "r", "t", " ", "o", "u", "t", "l", "i", "n", "e">>
    [] stage = drafting_executive_summary -> <<"W", "r", "i", "t", "i", "n", "g", " ", "e", "x", "e", "c", "u", "t", "i", "v", "e", " ", "s", "u", "m", "m", "a", "r", "y">>
    [] stage = writing_introduction -> <<"D", "r", "a", "f", "t", "i", "n", "g", " ", "i", "n", "t", "r", "o", "d", "u", "c", "t", "i", "o", "n">>
    [] stage = compiling_key_findings -> <<"C", "o", "m", "p", "i", "l", "i", "n", "g", " ", "k", "e", "y", " ", "f", "i", "n", "d", "i", "n", "g", "s">>
    [] stage = developing_analysis -> <<"D", "e", "v", "e", "l", "o", "p", "i", "n", "g", " ", "d", "e", "t", "a", "i", "l", "e", "d", " ", "a", "n", "a", "l", "y", "s", "i", "s">>
    [] stage = forming_conclusions -> <<"F", "o", "r", "m", "i", "n", "g", " ", "c", "o", "n", "c", "l", "u", "s", "i", "o", "n", "s">>
    [] stage = finalizing_report -> <<"F", "i", "n", "a", "l", "i", "z", "i", "n", "g", " ", "c", "o", "m", "p", "r", "e", "h", "e", "n", "s", "i", "v", "e", " ", "r", "e", "p", "o", "r", "t">>
    [] OTHER -> <<"G", "e", "n", "e", "r", "a", "t", "i", "n", "g", " ", "d", "e", "t", "a", "i", "l", "e", "d", " ", "r", "e", "p", "o", "r", "t">>

\* Names every object inherits from Object.prototype: phaseMap[name] is
\* then a function or an object, which is truthy and not a string.
PrototypeKeys == {<<"c", "o", "n", "s", "t", "r", "u", "c", "t", "o", "r">>, <<"t", "o", "S", "t", "r", "i", "n", "g">>}

\* phaseMap[phase]
phaseMap(phase, stage) ==
  CASE phase = idle -> <<"G", "e", "t", "t", "i", "n", "g", " ", "r", "e", "a", "d", "y", ".", ".", ".">>
    [] phase = initialized -> <<"S", "e", "t", "t", "i", "n", "g", " ", "u", "p", " ", "r", "e", "s", "e", "a", "r", "c", "h", " ", "p", "a", "r", "a", "m", "e", "t", "e", "r", "s">>
    [] phase = gathering_information ->
         IF stage = searching
         THEN <<"S", "e", "a", "r", "c", "h", "i", "n", "g", " ", "t", "h", "e", " ", "w", "e", "b", " ", "f", "o", "r", " ", "i", "n", "f", "o", "r", "m", "a", "t", "i", "o", "n">>
         ELSE <<"G", "a", "t", "h", "e", "r", "i", "n", "g", " ", "a", "n", "d", " ", "c", "o", "l", "l", "e", "c", "t", "i", "n", "g", " ", "d", "a", "t", "a">>
    [] phase = analyzing_information ->
         IF stage = organizing_data
         THEN <<"O", "r", "g", "a", "n", "i", "z", "i", "n", "g", " ", "r", "e", "s", "e", "a", "r", "c", "h", " ", "d", "a", "t", "a">>
         ELSE <<"P", "r", "o", "c", "e", "s", "s", "i", "n", "g", " ", "a", "n", "d", " ", "a", "n", "a", "l", "y", "z", "i", "n", "g", " ", "i", "n", "f", "o", "r", "m", "a", "t", "i", "o", "n">>
    [] phase = generating_report -> generatingReportDetails(stage)
    [] phase = completed ->
         IF stage = report_complete
         THEN <<"R", "e", "s", "e", "a", "r", "c", "h", " ", "r", "e", "p", "o", "r", "t", " ", "c", "o", "m", "p", "l", "e", "t", "e", "d">>
         ELSE <<"R", "e", "s", "e", "a", "r", "c", "h", " ", "c", "o", "m", "p", "l", "e", "t", "e", "d">>
    [] phase \in PrototypeKeys -> NotAString
    [] OTHER -> Undefined

getStepDetails(phase, stage) ==
  OrElse(phaseMap(phase, stage), <<"P", "r", "o", "c", "e", "s", "s", "i", "n", "g", ".", ".", ".">>)

\* phase.split("_").map(w => w.charAt(0).toUpperCase() + w.slice(1)).join(" ")
capitalize(word) == toUpperCase(charAt0(word)) \o slice1(word)
label(phase) ==
  LET words == split(phase, "_")
  IN  join([i \in 1..Len(words) |-> capitalize(words[i])], <<" ">>)


(***************************************************************************)
(* Step derivation and log entries (the body of render).                   *)
(***************************************************************************)
\* An object that is null, undefined or has no field at all.
NoObject == <<>>

\* o?.f for an object-valued field.
GetObject(o, f) == IF f \in DOMAIN o THEN o[f] ELSE NoObject

\* o?.f for a string-valued field.
GetString(o, f) == IF f \in DOMAIN o THEN o[f] ELSE Undefined

\* Array.prototype.findIndex over the values of the predicate: the first
\* index (from 0) whose flag is true, or -1.
RECURSIVE findIndexFrom(_, _)
findIndexFrom(flags, i) ==
  IF i > Len(flags) THEN -1
  ELSE IF flags[i] THEN i - 1
  ELSE findIndexFrom(flags, i + 1)
findIndex(flags) == findIndexFrom(flags, 1)

\* currentPhaseOf with the first phase of the sequence as the default.
currentPhaseOfInitialized(st) ==
  OrElse(GetString(GetObject(st, "status"), "phase"), initialized)

\* state?.status?.phase || "idle"
currentPhaseOf(st) == OrElse(GetString(GetObject(st, "status"), "phase"), idle)

\* state?.research?.stage || "not_started"
currentStageOf(st) ==
  OrElse(GetString(GetObject(st, "research"), "stage"), not_started)

\* stepOf with the comparison of completed off by one (>= for >).
stepOfInclusive(phase, currentPhase, currentStage) ==
  [id |-> phase,
   label |-> label(phase),
   description |-> getStepDetails(phase, currentStage),
   completed |-> indexOf(allPhases, currentPhase) >= indexOf(allPhases, phase),
   current |-> currentPhase = phase]

\* stepOf with current decided by position (reached) and not by equality.
stepOfReached(phase, currentPhase, currentStage) ==
  [id |-> phase,
   label |-> label(phase),
   description |-> getStepDetails(phase, currentStage),
   completed |-> indexOf(allPhases, currentPhase) > indexOf(allPhases, phase),
   current |-> indexOf(allPhases, currentPhase) >= indexOf(allPhases, phase)]

\* One element of allPhases.map(...)
stepOf(phase, currentPhase, currentStage) ==
  [id |-> phase,
   label |-> label(phase),
   description |-> getStepDetails(phase, currentStage),
   completed |-> indexOf(allPhases, currentPhase) > indexOf(allPhases, phase),
   current |-> currentPhase = phase]

getStepsFromState(st) ==
  [i \in 1..Len(allPhases) |->
     stepOf(allPhases[i], currentPhaseOf(st), currentStageOf(st))]

\* steps.findIndex((step) => step.current)
currentStepIndexOf(steps) ==
  findIndex([i \in 1..Len(steps) |-> steps[i].current])

\* logOf with the index comparison off by one (<= for <).
logOfInclusive(step, index, currentStepIndex) ==
  [done |-> step.completed \/ index <= currentStepIndex,
   message |-> step.label \o <<":", " ">> \o step.description]

\* logOf with the current step counted as done.
logOfCurrentDone(step, index, currentStepIndex) ==
  [done |-> step.completed \/ step.current,
   message |-> step.label \o <<":", " ">> \o step.description]

\* One element of steps.map((step, index) => ...), index from 0.
logOf(step, index, currentStepIndex) ==
  [done |-> step.completed \/ index < currentStepIndex,
   message |-> step.label \o <<":", " ">> \o step.description]

toLogEntries(steps) ==
  [i \in 1..Len(steps) |-> logOf(steps[i], i - 1, currentStepIndexOf(steps))]


(***************************************************************************)
(* The Progress component.                                                 *)
(***************************************************************************)
\* Longest URL shown in full, and the characters kept of a longer one.
UrlMaxLength == 50
UrlKeptLength == 47

\* truncateUrl with the length test off by one (< for <=).
truncateUrlStrict(url) ==
  IF Len(url) < UrlMaxLength THEN url
  ELSE substring0(url, UrlKeptLength) \o <<".", ".", ".">>

truncateUrl(url) ==
  IF Len(url) <= UrlMaxLength THEN url
  ELSE substring0(url, UrlKeptLength) \o <<".", ".", ".">>

\* Characters matched by \s that the model's strings can hold.
Whitespace == {" ", "\t", "\n"}

\* The two schemes matched by https?:\/\/
HttpScheme == <<"h", "t", "t", "p", ":", "/", "/">>
HttpsScheme == <<"h", "t", "t", "p", "s", ":", "/", "/">>

\* s has the characters of prefix at index i (from 1).
StartsWithAt(s, i, prefix) ==
  /\ i + Len(prefix) - 1 <= Len(s)
  /\ \A k \in 1..Len(prefix) : s[i + k - 1] = prefix[k]

\* Length of the scheme matched by https?:\/\/ at index i, or 0.
SchemeLengthAt(s, i) ==
  IF s[i] # "h" THEN 0
  ELSE IF StartsWithAt(s, i, HttpsScheme) THEN Len(HttpsScheme)
  ELSE IF StartsWithAt(s, i, HttpScheme) THEN Len(HttpScheme)
  ELSE 0

\* Index of the last character of the longest run of non-whitespace
\* characters starting at index i (i - 1 when the run is empty).
RECURSIVE RunEnd(_, _)
RunEnd(s, i) ==
  IF i > Len(s) \/ s[i] \in Whitespace THEN i - 1 ELSE RunEnd(s, i + 1)

\* The pattern /https?:\/\/[^\s]+/ matches at index i: a scheme followed by
\* at least one non-whitespace character.
MatchesAt(s, i) ==
  /\ SchemeLengthAt(s, i) > 0
  /\ RunEnd(s, i + SchemeLengthAt(s, i)) >= i + SchemeLengthAt(s, i)

\* Index of the first match at or after index i, or Len(s) + 1.
RECURSIVE NextMatch(_, _)
NextMatch(s, i) ==
  IF i > Len(s) \/ MatchesAt(s, i) THEN i ELSE NextMatch(s, i + 1)

\* message.replace(/https?:\/\/[^\s]+/g, (url) => truncateUrl(url))
RECURSIVE replaceUrlsFrom(_, _)
replaceUrlsFrom(s, i) ==
  LET m == NextMatch(s, i)
      e == RunEnd(s, m)
  IN  IF m > Len(s) THEN SubSeq(s, i, Len(s))
      ELSE SubSeq(s, i, m - 1) \o truncateUrl(SubSeq(s, m, e))
             \o replaceUrlsFrom(s, e + 1)
replaceUrls(message) == replaceUrlsFrom(message, 1)

\* Number.prototype.toString for a non-negative integer.
Digits == <<"0", "1", "2", "3", "4", "5", "6", "7", "8", "9">>
RECURSIVE numberToString(_)
numberToString(n) ==
  IF n < 10 THEN <<Digits[n + 1]>>
  ELSE numberToString(n \div 10) \o <<Digits[(n % 10) + 1]>>

\* undimmed with the negation of the findIndex predicate left out.
undimmedFirstDone(logs, index) ==
  \/ logs[index + 1].done
  \/ index = findIndex([i \in 1..Len(logs) |-> logs[i].done])

\* log.done || index === logs.findIndex((log) => !log.done) : the entry is
\* rendered without the "opacity-50" class.  index counts from 0.
undimmed(logs, index) ==
  \/ logs[index + 1].done
  \/ index = findIndex([i \in 1..Len(logs) |-> ~logs[i].done])

\* One rendered progress-step item.
itemOf(logs, index) ==
  [done |-> logs[index + 1].done,
   dimmed |-> ~undimmed(logs, index),
   text |-> replaceUrls(logs[index + 1].message)]

\* state?.research?.sources_found, an integer or absent.
HasSourcesFound(st) == "sources_found" \in DOMAIN GetObject(st, "research")
sourcesFoundOf(st) == GetObject(st, "research").sources_found

\* showSources with the comparison off by one (>= for >).
showSourcesFromZero(st) ==
  IF HasSourcesFound(st) THEN sourcesFoundOf(st) >= 0 ELSE FALSE

\* (state?.research?.sources_found ?? 0) > 0
showSources(st) == IF HasSourcesFound(st) THEN sourcesFoundOf(st) > 0 ELSE FALSE

\* "Found {n} source{n !== 1 ? "s" : ""}"
sourcesText(st) ==
  <<"F", "o", "u", "n", "d", " ">> \o numberToString(sourcesFoundOf(st)) \o <<" ", "s", "o", "u", "r", "c", "e">>
    \o (IF sourcesFoundOf(st) # 1 THEN <<"s">> ELSE <<>>)

\* What a render pass that shows nothing returns (null).
NullView == [items |-> <<>>, sources |-> Undefined]

\* The element tree returned for a non-empty list of logs.
progressMarkup(logs, st) ==
  [items |-> [i \in 1..Len(logs) |-> itemOf(logs, i - 1)],
   sources |-> IF showSources(st) THEN sourcesText(st) ELSE Undefined]

Progress(logs, st) ==
  IF Len(logs) = 0 THEN NullView ELSE progressMarkup(logs, st)


(***************************************************************************)
(* The page: state, run controller and render.                             *)
(***************************************************************************)
VARIABLES
  variant,               \* which page is mounted: "always" (page.tsx) or
                         \* "gated" (the status-gated variant)
  state,                 \* the agent state held by useCoAgent
  running,               \* useCoAgent's running: an agent run is in progress
  isResearchInProgress,  \* the useRef flag
  timers,                \* pending setTimeout callbacks, in scheduling order
  now,                   \* the clock, in ms
  runId,                 \* number of runs started so far (0: none yet)
  endEvents,             \* history: the terminal-node events handled
  stopCalls,             \* history: the calls of stopResearchAgent
  steps,                 \* the steps derived by the latest render pass
  logs,                  \* the logs handed to the progress markup
  view,                  \* what the latest render pass returned
  call,                  \* the arguments of a function applied on its own
  result                 \* what that function, or ReportCanvas, returned

vars ==
  <<variant, state, running, isResearchInProgress, timers, now, runId,
    endEvents, stopCalls, steps, logs, view, call, result>>

\* No function was applied on its own, and nothing was returned yet.
NoCall == <<>>
NoResult == <<>>

Variants == {"always", "gated"}

\* The delay handed to setTimeout, in ms.
StopDelay == 1000

\* The sentinel node name, and some other node names of the graph.
EndNode == "__end__"
NodeNames == {EndNode, "search_node", "report_node"}

\* The values of the render status.
RenderStatuses == {"inProgress", "executing", "complete"}

\* Amounts by which the clock advances between events, in ms.
Ticks == {200, 800, 1000}

\* The initialState handed to useCoAgent.
InitialState ==
  [status |-> [phase |-> idle, error |-> Undefined],
   research |-> [stage |-> not_started, sources_found |-> 0],
   processing |-> [report |-> Undefined]]

\* State snapshots the agent sends during a run.
UpdateStates ==
  { [status |-> [phase |-> gathering_information, error |-> Undefined],
     research |-> [stage |-> searching, sources_found |-> 1],
     processing |-> [report |-> Undefined]],
    [status |-> [phase |-> generating_report, error |-> <<"s", "e", "a", "r", "c", "h", " ", "f", "a", "i", "l", "e", "d">>],
     research |-> [stage |-> drafting_executive_summary, sources_found |-> 2],
     processing |-> [report |-> Undefined]],
    [status |-> [phase |-> completed, error |-> Undefined],
     research |-> [stage |-> report_complete, sources_found |-> 2],
     processing |-> [report |-> <<"#", " ", "T">>]] }

Init ==
  /\ variant \in Variants
  /\ state = InitialState
  /\ running = FALSE
  /\ isResearchInProgress = FALSE
  /\ timers = <<>>
  /\ now = 0
  /\ runId = 0
  /\ endEvents = <<>>
  /\ stopCalls = <<>>
  /\ steps = <<>>
  /\ logs = <<>>
  /\ view = NullView
  /\ call = NoCall
  /\ result = NoResult

\* The user sends a message: the agent starts a run.
StartRun ==
  /\ ~running
  /\ runId < MaxRuns
  /\ now <= MaxTime
  /\ running' = TRUE
  /\ runId' = runId + 1
  /\ UNCHANGED <<call, result, variant, state, isResearchInProgress, timers, now,
                 endEvents, stopCalls, steps, logs, view>>

\* The agent sends a state snapshot, which replaces the held state.
StateUpdate(s) ==
  /\ running
  /\ now <= MaxTime
  /\ state' = s
  /\ UNCHANGED <<call, result, variant, running, isResearchInProgress, timers, now, runId,
                 endEvents, stopCalls, steps, logs, view>>

\* timerOf with the delay left out (setTimeout(callback)).
timerOfNoDelay(nodeName, at, run) == [due |-> at, origin |-> run]

\* The callback handed to setTimeout by the handler.
timerOf(nodeName, at, run) == [due |-> at + StopDelay, origin |-> run]

\* handlerTimers without the test of the node name.
handlerTimersAnyNode(nodeName, pending, at, run) ==
  Append(pending, timerOf(nodeName, at, run))

\* The timers pending after handler({ nodeName }).
handlerTimers(nodeName, pending, at, run) ==
  IF nodeName = EndNode
  THEN Append(pending, timerOf(nodeName, at, run))
  ELSE pending

\* handler: ({ nodeName }) => ...
Handler(nodeName) ==
  /\ running
  /\ now <= MaxTime
  /\ nodeName = EndNode => Len(endEvents) < MaxEnds
  /\ timers' = handlerTimers(nodeName, timers, now, runId)
  /\ endEvents' =
       IF nodeName = EndNode
       THEN Append(endEvents, [at |-> now, run |-> runId])
       ELSE endEvents
  /\ UNCHANGED <<call, result, variant, state, running, isResearchInProgress, now, runId,
                 stopCalls, steps, logs, view>>

\* The run of the agent ends by itself once its terminal node was reached.
FinishRun ==
  /\ running
  /\ \E i \in 1..Len(endEvents) : endEvents[i].run = runId
  /\ running' = FALSE
  /\ UNCHANGED <<call, result, variant, state, isResearchInProgress, timers, now, runId,
                 endEvents, stopCalls, steps, logs, view>>

\* The render pass goes through the branch that sets the flag and builds
\* the progress markup.
renderShows(v, status) ==
  IF v = "gated" THEN status = "inProgress" \/ status = "complete" ELSE TRUE

\* renderFlag with the status-gated page reaching its branch for complete,
\* which resets the flag.
renderFlagResetOnComplete(v, status, flag) ==
  IF v = "gated" /\ status = "complete" THEN FALSE
  ELSE IF renderShows(v, status) THEN TRUE
  ELSE flag

\* isResearchInProgress.current after render({ status }).
renderFlag(v, status, flag) == IF renderShows(v, status) THEN TRUE ELSE flag

\* What render returns: the always-shown page returns <Progress/>, the
\* status-gated page builds the same markup inline, or returns null.
renderView(v, status, ls, st) ==
  IF v = "gated"
  THEN IF renderShows(v, status) THEN progressMarkup(ls, st) ELSE NullView
  ELSE Progress(ls, st)

\* render: ({ state }) => ... / render: ({ status }) => ...
Render(status) ==
  /\ runId > 0
  /\ isResearchInProgress' = renderFlag(variant, status, isResearchInProgress)
  /\ steps' = IF renderShows(variant, status)
              THEN getStepsFromState(state) ELSE <<>>
  /\ logs' = toLogEntries(steps')
  /\ view' = renderView(variant, status, logs', state)
  /\ UNCHANGED <<call, result, variant, state, running, timers, now, runId,
                 endEvents, stopCalls>>

\* stop(): the call is recorded with the run it reaches (0: none is running).
stopRecord(timer, at, isRunning, run) ==
  [at |-> at, run |-> IF isRunning THEN run ELSE 0, origin |-> timer.origin]

\* FireTimer with the callback also putting the state back to its initial
\* value.
FireTimerResettingState ==
  /\ timers # <<>>
  /\ Head(timers).due <= now
  /\ timers' = Tail(timers)
  /\ isResearchInProgress' = FALSE
  /\ stopCalls' = Append(stopCalls, stopRecord(Head(timers), now, running, runId))
  /\ running' = FALSE
  /\ state' = InitialState
  /\ UNCHANGED <<call, result, variant, now, runId, endEvents, steps, logs, view>>

\* The oldest timer is due: its callback clears the flag and calls stop.
FireTimer ==
  /\ timers # <<>>
  /\ Head(timers).due <= now
  /\ timers' = Tail(timers)
  /\ isResearchInProgress' = FALSE
  /\ stopCalls' = Append(stopCalls, stopRecord(Head(timers), now, running, runId))
  /\ running' = FALSE
  /\ UNCHANGED <<call, result, variant, state, now, runId, endEvents, steps, logs, view>>

\* Time passes, but not beyond the moment the oldest timer is due.
Tick(d) ==
  /\ IF timers # <<>> THEN now + d <= Head(timers).due ELSE now + d <= MaxTime
  /\ now' = now + d
  /\ UNCHANGED <<call, result, variant, state, running, isResearchInProgress, timers, runId,
                 endEvents, stopCalls, steps, logs, view>>

Next ==
  \/ StartRun
  \/ \E s \in UpdateStates : StateUpdate(s)
  \/ \E n \in NodeNames : Handler(n)
  \/ FinishRun
  \/ \E status \in RenderStatuses : Render(status)
  \/ FireTimer
  \/ \E d \in Ticks : Tick(d)

Spec == Init /\ [][Next]_vars

\* setTimeout callbacks are run once due, and the clock does not stop.
FairSpec == Spec /\ WF_vars(FireTimer) /\ WF_vars(\E d \in Ticks : Tick(d))


(***************************************************************************)
(* Step derivation on its own: every shape of state, derived once.         *)
(***************************************************************************)
\* Values of status.phase: the six phases, a name outside the enumeration,
\* the empty string and null.
PhaseInputs ==
  {idle, initialized, gathering_information, analyzing_information,
   generating_report, completed, <<"a", "r", "c", "h", "i", "v", "e", "d">>, <<>>, Undefined}

\* Values of research.stage: the named stages, another name, the empty
\* string and null.
StageInputs ==
  {not_started, searching, organizing_data, creating_detailed_report,
   outlining_report, drafting_executive_summary, writing_introduction,
   compiling_key_findings, developing_analysis, forming_conclusions,
   finalizing_report, report_complete, <<"r", "e", "v", "i", "e", "w", "i", "n", "g">>, <<>>, Undefined}

\* Largest sources_found of the derivation inputs.
MaxSources == 2

\* Fully and partially populated states, and null.
DeriveStates ==
  {NoObject}
    \cup {[status |-> [phase |-> p]] : p \in PhaseInputs}
    \cup {[research |-> [stage |-> s]] : s \in StageInputs}
    \cup {[status |-> [phase |-> p, error |-> Undefined],
           research |-> [stage |-> s, sources_found |-> n],
           processing |-> [report |-> Undefined]] :
            p \in PhaseInputs, s \in StageInputs, n \in 0..MaxSources}

DeriveInit ==
  /\ variant \in Variants
  /\ state \in DeriveStates
  /\ running = FALSE
  /\ isResearchInProgress = FALSE
  /\ timers = <<>>
  /\ now = 0
  /\ runId = 0
  /\ endEvents = <<>>
  /\ stopCalls = <<>>
  /\ steps = <<>>
  /\ logs = <<>>
  /\ view = NullView
  /\ call = NoCall
  /\ result = NoResult

\* The derivation of one render pass: steps, then logs, then the markup.
Derive ==
  /\ steps' = getStepsFromState(state)
  /\ logs' = toLogEntries(steps')
  /\ view' = Progress(logs', state)
  /\ UNCHANGED <<call, result, variant, state, running, isResearchInProgress, timers, now,
                 runId, endEvents, stopCalls>>

DeriveNext == Derive

DeriveSpec == DeriveInit /\ [][DeriveNext]_vars

(***************************************************************************)
(* The Progress component on its own: every short list of logs.            *)
(***************************************************************************)
\* Messages of the log entries: a plain one, and one that holds a URL of
\* more than 50 characters.
MessageInputs ==
  {<<"I", "n", "i", "t", "i", "a", "l", "i", "z", "e", "d", ":", " ", "S", "e", "t", "t", "i", "n", "g", " ", "u", "p", " ", "r", "e", "s", "e", "a", "r", "c", "h", " ", "p", "a", "r", "a", "m", "e", "t", "e", "r", "s">>,
   <<"R", "e", "a", "d", "i", "n", "g", " ", "h", "t", "t", "p", "s", ":", "/", "/", "e", "x", "a", "m", "p", "l", "e", ".", "o", "r", "g", "/", "r", "e", "p", "o", "r", "t", "s", "/", "2", "0", "2", "5", "/", "a", "n", "n", "u", "a", "l", "/", "s", "u", "m", "m", "a", "r", "y", "-", "o", "f", "-", "f", "i", "n", "d", "i", "n", "g", "s", " ", "n", "o", "w">>}

LogInputs ==
  UNION {[1..n -> [done : BOOLEAN, message : MessageInputs]] : n \in 0..MaxLogs}

ProgressInit ==
  /\ variant = "always"
  /\ state = InitialState
  /\ running = FALSE
  /\ isResearchInProgress = FALSE
  /\ timers = <<>>
  /\ now = 0
  /\ runId = 0
  /\ endEvents = <<>>
  /\ stopCalls = <<>>
  /\ steps = <<>>
  /\ logs \in LogInputs
  /\ view = NullView
  /\ call = NoCall
  /\ result = NoResult

\* <Progress logs={logs} state={state} />
ProgressRender ==
  /\ view' = Progress(logs, state)
  /\ UNCHANGED <<call, result, variant, state, running, isResearchInProgress, timers, now,
                 runId, endEvents, stopCalls, steps, logs>>

ProgressNext == ProgressRender

ProgressSpec == ProgressInit /\ [][ProgressNext]_vars


(***************************************************************************)
(* The run controller: delayed stop.                                       *)
(***************************************************************************)
\* Indexes of the terminal-node events of run r, and of the stop calls
\* scheduled by them.
EndsOfRun(r) == {i \in DOMAIN endEvents : endEvents[i].run = r}
StopsOfRun(r) == {i \in DOMAIN stopCalls : stopCalls[i].origin = r}

\* Time of the first terminal-node event of run r.
FirstEndAt(r) ==
  endEvents[CHOOSE i \in EndsOfRun(r) : \A j \in EndsOfRun(r) : i <= j].at

\* C1: within one run, however many terminal-node events arrive, stop is
\* called at most once for that run, and that call is made 1000 ms after
\* the first terminal-node event of the run.
C1_StopCalledOncePerRun ==
  \A r \in 1..MaxRuns :
    /\ Cardinality(StopsOfRun(r)) <= 1
    /\ \A i \in StopsOfRun(r) : stopCalls[i].at = FirstEndAt(r) + StopDelay

\* C2: a stop scheduled by the terminal-node event of one run never reaches
\* a later run: every stop call that reaches a run in progress was
\* scheduled by that same run.
C2_NoStaleStop ==
  \A i \in DOMAIN stopCalls :
    stopCalls[i].run # 0 => stopCalls[i].run = stopCalls[i].origin

\* C3: at most one delayed stop action is pending in every reachable state.
C3_AtMostOnePendingStop == Len(timers) <= 1

\* C4: a terminal-node event calls nothing by itself and only schedules the
\* stop; the stop is called exactly 1000 ms after its event, by a callback
\* that clears the flag; state updates stay possible while the stop is
\* pending; and (under FairSpec) the k-th terminal-node event is eventually
\* followed by the k-th stop call.
C4_HandlerOnlySchedules ==
  [][Len(endEvents') > Len(endEvents) =>
       /\ stopCalls' = stopCalls
       /\ running' = running
       /\ isResearchInProgress' = isResearchInProgress
       /\ Len(timers') = Len(timers) + 1
       /\ timers'[Len(timers')].due = now + StopDelay]_vars
C4_StopAfterDelay ==
  \A i \in DOMAIN stopCalls :
    /\ i <= Len(endEvents)
    /\ stopCalls[i].at = endEvents[i].at + StopDelay
    /\ stopCalls[i].origin = endEvents[i].run
C4_CallbackClearsFlag ==
  [][Len(stopCalls') > Len(stopCalls) =>
       /\ isResearchInProgress' = FALSE
       /\ Len(stopCalls') = Len(stopCalls) + 1
       /\ timers' = Tail(timers)]_vars
C4_UpdatesStillApplied ==
  (timers # <<>> /\ running /\ now <= MaxTime) =>
    \A s \in UpdateStates : ENABLED StateUpdate(s)
C4_EveryEndIsFollowedByStop ==
  \A k \in 1..(MaxEnds + 1) : (Len(endEvents) >= k) ~> (Len(stopCalls) >= k)
C4_DelayedStop ==
  /\ C4_HandlerOnlySchedules
  /\ [](C4_StopAfterDelay /\ C4_UpdatesStillApplied)
  /\ C4_CallbackClearsFlag
  /\ C4_EveryEndIsFollowedByStop

\* C4 witness: the flag was set by a render, a terminal-node event arrived
\* 200 ms into the session, and its stop was called 1000 ms later, reached
\* the run of that event and cleared the flag.
C4_Witness ==
  /\ Len(stopCalls) = 1
  /\ Len(endEvents) = 1
  /\ endEvents[1].at = 200
  /\ stopCalls[1].at = 1200
  /\ stopCalls[1].run = endEvents[1].run
  /\ steps # <<>>
  /\ ~isResearchInProgress
  /\ ~running

\* C5: only a terminal-node event schedules a stop, and only a scheduled
\* callback calls stop: every stop call and every pending stop is accounted
\* for by one terminal-node event, and a step that changes the state (to one
\* with an error or not) or handles another node changes neither.
C5_Accounted == Len(stopCalls) + Len(timers) = Len(endEvents)
C5_OnlyEndSchedules ==
  [][/\ Len(timers') > Len(timers) => Handler(EndNode)
     /\ Len(stopCalls') > Len(stopCalls) => FireTimer
     /\ (state' # state \/ \E n \in NodeNames \ {EndNode} : Handler(n)) =>
          UNCHANGED <<timers, stopCalls, running, isResearchInProgress>>]_vars
C5_StopOnlyFromTerminalNode == []C5_Accounted /\ C5_OnlyEndSchedules

\* C5 witness: a run that reported an error, handled no terminal node, was
\* rendered, and goes on with no stop pending or called.
C5_Witness ==
  /\ running
  /\ Truthy(GetString(GetObject(state, "status"), "error"))
  /\ view # NullView
  /\ endEvents = <<>>
  /\ timers = <<>>
  /\ stopCalls = <<>>

\* C6: a render whose status is neither inProgress nor complete leaves the
\* in-progress flag unchanged.
C6_OnlyActiveStatusSetsFlag ==
  [][\A status \in RenderStatuses \ {"inProgress", "complete"} :
       Render(status) => isResearchInProgress' = isResearchInProgress]_vars


(***************************************************************************)
(* Derived steps, log entries and dimming.                                 *)
(***************************************************************************)
\* The fixed phase sequence as the specification states it, and the
\* position of a phase in it (0 when the phase is not in it).
PhaseSequence ==
  <<initialized, gathering_information, analyzing_information,
    generating_report, completed>>
PhasePosition(p) ==
  IF \E i \in 1..Len(PhaseSequence) : PhaseSequence[i] = p
  THEN CHOOSE i \in 1..Len(PhaseSequence) : PhaseSequence[i] = p
  ELSE 0

\* The current phase of a state: status.phase, or idle when it is absent,
\* null or empty.
PhaseHeld(st) ==
  IF /\ "status" \in DOMAIN st
     /\ "phase" \in DOMAIN st.status
     /\ st.status.phase \notin {Undefined, <<>>}
  THEN st.status.phase
  ELSE idle

\* C7: the derived steps are the five phases in the fixed order; a step is
\* completed iff the current phase comes strictly later in the sequence and
\* current iff it is the current phase; exactly one step is current when
\* the current phase is in the sequence, and none is completed or current
\* when it is idle or absent.
C7_DeriveSteps ==
  steps # <<>> =>
    /\ Len(steps) = 5
    /\ \A i \in 1..Len(steps) :
         /\ steps[i].id = PhaseSequence[i]
         /\ steps[i].completed <=> PhasePosition(PhaseHeld(state)) > i
         /\ steps[i].current <=> PhaseHeld(state) = PhaseSequence[i]
    /\ PhasePosition(PhaseHeld(state)) > 0 =>
         Cardinality({i \in 1..Len(steps) : steps[i].current}) = 1
    /\ PhaseHeld(state) = idle =>
         \A i \in 1..Len(steps) : ~steps[i].completed /\ ~steps[i].current

\* C7 witness: the steps derived in phase analyzing_information.
C7_Witness ==
  /\ PhaseHeld(state) = analyzing_information
  /\ Len(steps) = 5
  /\ steps[1].completed /\ steps[2].completed
  /\ steps[3].current /\ ~steps[3].completed
  /\ ~steps[4].completed /\ ~steps[4].current

\* At most one step of ss is current; the steps before it are completed,
\* and it and the steps after it are not; the steps after it are not current.
StepsOrdered(ss) ==
  /\ Cardinality({i \in 1..Len(ss) : ss[i].current}) <= 1
  /\ \A c \in 1..Len(ss) :
       ss[c].current =>
         \A i \in 1..Len(ss) :
           /\ i < c => ss[i].completed
           /\ i >= c => ~ss[i].completed
           /\ i > c => ~ss[i].current

\* C8: after any sequence of state updates the derived step list, of the
\* state held and of the latest render pass, has at most one current step,
\* with the steps before it completed and it and the later ones not.
C8_OneCurrentStep ==
  StepsOrdered(getStepsFromState(state)) /\ StepsOrdered(steps)

\* C8 witness: the second run was rendered in phase generating_report and
\* then updated to phase completed.
C8_Witness ==
  /\ runId = 2
  /\ Len(steps) = 5
  /\ steps[4].current
  /\ getStepsFromState(state)[5].current
  /\ getStepsFromState(state)[4].completed

\* The labels of the five steps.
StepLabels ==
  <<<<"I", "n", "i", "t", "i", "a", "l", "i", "z", "e", "d">>, <<"G", "a", "t", "h", "e", "r", "i", "n", "g", " ", "I", "n", "f", "o", "r", "m", "a", "t", "i", "o", "n">>, <<"A", "n", "a", "l", "y", "z", "i", "n", "g", " ", "I", "n", "f", "o", "r", "m", "a", "t", "i", "o", "n">>,
    <<"G", "e", "n", "e", "r", "a", "t", "i", "n", "g", " ", "R", "e", "p", "o", "r", "t">>, <<"C", "o", "m", "p", "l", "e", "t", "e", "d">>>>

\* Index from 0 of the step that is current, or -1.
CurrentStepIndex(ss) ==
  IF \E i \in 1..Len(ss) : ss[i].current
  THEN (CHOOSE i \in 1..Len(ss) :
          ss[i].current /\ \A j \in 1..Len(ss) : ss[j].current => i <= j) - 1
  ELSE -1

\* C9: the log entries follow the steps one to one and in order; entry i is
\* done iff step i is completed or i is less than the index of the current
\* step, and its message is "<label>: <description>", the label being the
\* phase name in title case.
C9_LogEntries ==
  steps # <<>> =>
    /\ Len(logs) = Len(steps)
    /\ \A i \in 1..Len(steps) :
         /\ logs[i].done <=>
              (steps[i].completed \/ i - 1 < CurrentStepIndex(steps))
         /\ steps[i].label = StepLabels[i]
         /\ logs[i].message =
              StepLabels[i] \o <<":", " ">> \o steps[i].description

\* C9 witness: the log entries of phase gathering_information, stage
\* searching.
C9_Witness ==
  /\ Len(logs) = 5
  /\ logs[1].done
  /\ ~logs[2].done
  /\ logs[2].message =
       <<"G", "a", "t", "h", "e", "r", "i", "n", "g", " ", "I", "n", "f", "o", "r", "m", "a", "t", "i", "o", "n", ":", " ", "S", "e", "a", "r", "c", "h", "i", "n", "g", " ", "t", "h", "e", " ", "w", "e", "b", " ", "f", "o", "r", " ", "i", "n", "f", "o", "r", "m", "a", "t", "i", "o", "n">>

\* Indexes of the log entries that are not done.
NotDone == {i \in 1..Len(logs) : ~logs[i].done}

\* C10: a rendered entry is un-dimmed iff it is done or it is the first
\* entry that is not done; so exactly one not-done entry is un-dimmed when
\* there is one, and every later not-done entry is dimmed.
C10_FirstNotDoneUndimmed ==
  view.items # <<>> =>
    /\ Len(view.items) = Len(logs)
    /\ \A i \in 1..Len(logs) :
         ~view.items[i].dimmed <=>
           (logs[i].done \/ (i \in NotDone /\ \A j \in NotDone : i <= j))
    /\ NotDone # {} =>
         Cardinality({i \in NotDone : ~view.items[i].dimmed}) = 1
    /\ \A i \in NotDone :
         (\E j \in NotDone : j < i) => view.items[i].dimmed

\* C10 witness: four entries, the second and the fourth not done: the
\* second is un-dimmed and the fourth dimmed.
C10_Witness ==
  /\ Len(view.items) = 4
  /\ logs[1].done /\ ~logs[2].done /\ logs[3].done /\ ~logs[4].done
  /\ ~view.items[1].dimmed
  /\ ~view.items[2].dimmed
  /\ ~view.items[3].dimmed
  /\ view.items[4].dimmed


(***************************************************************************)
(* truncateUrl on its own: URLs of every length up to MaxUrlLength.        *)
(***************************************************************************)
\* Longest URL handed to truncateUrl.
MaxUrlLength == 60

\* Two long URLs, whose prefixes are the inputs.
UrlBases ==
  {<<"h", "t", "t", "p", "s", ":", "/", "/", "e", "x", "a", "m", "p", "l", "e", ".", "o", "r", "g", "/", "r", "e", "s", "e", "a", "r", "c", "h", "/", "r", "e", "p", "o", "r", "t", "s", "/", "2", "0", "2", "5", "/", "a", "n", "n", "u", "a", "l", "/", "s", "u", "m", "m", "a", "r", "y", "-", "o", "f", "-", "f", "i", "n", "d", "i", "n", "g", "s", ".", "h", "t", "m", "l">>,
   <<"h", "t", "t", "p", ":", "/", "/", "l", "o", "c", "a", "l", "h", "o", "s", "t", ":", "8", "0", "0", "0", "/", "o", "p", "e", "n", "a", "p", "i", ".", "j", "s", "o", "n", "?", "t", "h", "r", "e", "a", "d", "_", "i", "d", "=", "t", "e", "s", "t", "_", "t", "h", "r", "e", "a", "d", "_", "1", "2", "3", "&", "r", "u", "n", "_", "i", "d", "=", "t", "e", "s", "t", "_", "r", "u", "n", "_", "4", "5", "6">>}

UrlInputs == {substring0(b, n) : b \in UrlBases, n \in 0..MaxUrlLength}

TruncateInit ==
  /\ variant = "always"
  /\ state = InitialState
  /\ running = FALSE
  /\ isResearchInProgress = FALSE
  /\ timers = <<>>
  /\ now = 0
  /\ runId = 0
  /\ endEvents = <<>>
  /\ stopCalls = <<>>
  /\ steps = <<>>
  /\ logs = <<>>
  /\ view = NullView
  /\ call \in {[url |-> u] : u \in UrlInputs}
  /\ result = NoResult

\* truncateUrl(url)
Truncate ==
  /\ result' = truncateUrl(call.url)
  /\ UNCHANGED <<call, variant, state, running, isResearchInProgress, timers,
                 now, runId, endEvents, stopCalls, steps, logs, view>>

TruncateNext == Truncate

TruncateSpec == TruncateInit /\ [][TruncateNext]_vars

\* C11: a URL of at most 50 characters is returned as it is; a longer one
\* is returned as its first 47 characters followed by "...", 50 characters
\* in all; the result is never longer than 50 characters.
C11_TruncateUrl ==
  result # NoResult =>
    /\ Len(call.url) <= 50 => result = call.url
    /\ Len(call.url) > 50 =>
         /\ result = SubSeq(call.url, 1, 47) \o <<".", ".", ".">>
         /\ Len(result) = 50
    /\ Len(result) <= 50

\* C11 witness: a URL of 51 characters came back as 47 characters and "...".
C11_Witness ==
  /\ call # NoCall
  /\ Len(call.url) = 51
  /\ Len(result) = 50
  /\ SubSeq(result, 1, 47) = SubSeq(call.url, 1, 47)
  /\ SubSeq(result, 48, 50) = <<".", ".", ".">>


(***************************************************************************)
(* The source count of the progress view.                                  *)
(***************************************************************************)
\* The text of the source count for 1, 2, 3 and 4 sources.
CountTexts ==
  <<<<"F", "o", "u", "n", "d", " ", "1", " ", "s", "o", "u", "r", "c", "e">>, <<"F", "o", "u", "n", "d", " ", "2", " ", "s", "o", "u", "r", "c", "e", "s">>, <<"F", "o", "u", "n", "d", " ", "3", " ", "s", "o", "u", "r", "c", "e", "s">>,
    <<"F", "o", "u", "n", "d", " ", "4", " ", "s", "o", "u", "r", "c", "e", "s">>>>

\* research.sources_found of a state, or 0 when it is absent.
SourcesFound(st) ==
  IF "research" \in DOMAIN st /\ "sources_found" \in DOMAIN st.research
  THEN st.research.sources_found
  ELSE 0

\* C12: the progress view shows the source count iff sources_found > 0
\* (nothing when it is absent or zero); the text is "Found <n> source",
\* with "s" appended iff n is not 1.
C12_SourceCount ==
  steps # <<>> =>
    /\ view.sources # Undefined <=> SourcesFound(state) > 0
    /\ SourcesFound(state) \in 1..Len(CountTexts) =>
         view.sources = CountTexts[SourcesFound(state)]
    /\ SourcesFound(state) > 0 =>
         (view.sources[Len(view.sources)] = "s" <=> SourcesFound(state) # 1)

\* C12 witness: one source found is rendered as "Found 1 source".
C12_Witness ==
  /\ steps # <<>>
  /\ SourcesFound(state) = 1
  /\ view.sources = <<"F", "o", "u", "n", "d", " ", "1", " ", "s", "o", "u", "r", "c", "e">>


(***************************************************************************)
(* getStepDetails on its own: pairs of strings.                            *)
(***************************************************************************)
\* Phase arguments: the six phases, a name outside the mapping, the empty
\* string, and names that every object inherits.
DescribePhases ==
  {idle, initialized, gathering_information, analyzing_information,
   generating_report, completed, <<"a", "r", "c", "h", "i", "v", "e", "d">>, <<>>} \cup PrototypeKeys

\* Stage arguments: the named stages, another name and the empty string.
DescribeStages == StageInputs \ {Undefined}

DescribeInit ==
  /\ variant = "always"
  /\ state = InitialState
  /\ running = FALSE
  /\ isResearchInProgress = FALSE
  /\ timers = <<>>
  /\ now = 0
  /\ runId = 0
  /\ endEvents = <<>>
  /\ stopCalls = <<>>
  /\ steps = <<>>
  /\ logs = <<>>
  /\ view = NullView
  /\ call \in [phase : DescribePhases, stage : DescribeStages]
  /\ result = NoResult

\* getStepDetails(phase, stage)
Describe ==
  /\ result' = getStepDetails(call.phase, call.stage)
  /\ UNCHANGED <<call, variant, state, running, isResearchInProgress, timers,
                 now, runId, endEvents, stopCalls, steps, logs, view>>

DescribeNext == Describe

DescribeSpec == DescribeInit /\ [][DescribeNext]_vars

\* The phases of the mapping.
MappedPhases ==
  {idle, initialized, gathering_information, analyzing_information,
   generating_report, completed}

\* The stage-specific descriptions of generating_report.
ReportStageTexts(stage) ==
  CASE stage \in {creating_detailed_report, outlining_report} ->
         <<"C", "r", "e", "a", "t", "i", "n", "g", " ", "r", "e", "p", "o", "r", "t", " ", "o", "u", "t", "l", "i", "n", "e">>
    [] stage = drafting_executive_summary -> <<"W", "r", "i", "t", "i", "n", "g", " ", "e", "x", "e", "c", "u", "t", "i", "v", "e", " ", "s", "u", "m", "m", "a", "r", "y">>
    [] stage = writing_introduction -> <<"D", "r", "a", "f", "t", "i", "n", "g", " ", "i", "n", "t", "r", "o", "d", "u", "c", "t", "i", "o", "n">>
    [] stage = compiling_key_findings -> <<"C", "o", "m", "p", "i", "l", "i", "n", "g", " ", "k", "e", "y", " ", "f", "i", "n", "d", "i", "n", "g", "s">>
    [] stage = developing_analysis -> <<"D", "e", "v", "e", "l", "o", "p", "i", "n", "g", " ", "d", "e", "t", "a", "i", "l", "e", "d", " ", "a", "n", "a", "l", "y", "s", "i", "s">>
    [] stage = forming_conclusions -> <<"F", "o", "r", "m", "i", "n", "g", " ", "c", "o", "n", "c", "l", "u", "s", "i", "o", "n", "s">>
    [] stage = finalizing_report -> <<"F", "i", "n", "a", "l", "i", "z", "i", "n", "g", " ", "c", "o", "m", "p", "r", "e", "h", "e", "n", "s", "i", "v", "e", " ", "r", "e", "p", "o", "r", "t">>
    [] OTHER -> <<"G", "e", "n", "e", "r", "a", "t", "i", "n", "g", " ", "d", "e", "t", "a", "i", "l", "e", "d", " ", "r", "e", "p", "o", "r", "t">>

\* C13: getStepDetails returns a string for every pair of strings:
\* "Processing..." for a phase outside the mapping, the stage-specific
\* description for generating_report, the searching, organizing_data and
\* report_complete descriptions iff the stage is that one, and a description
\* that does not depend on the stage for idle and initialized.
C13_DescribeTotal ==
  result # NoResult =>
    /\ result \notin {Undefined, NotAString}
    /\ call.phase \notin MappedPhases => result = <<"P", "r", "o", "c", "e", "s", "s", "i", "n", "g", ".", ".", ".">>
    /\ call.phase = generating_report => result = ReportStageTexts(call.stage)
    /\ call.phase = gathering_information =>
         (result = <<"S", "e", "a", "r", "c", "h", "i", "n", "g", " ", "t", "h", "e", " ", "w", "e", "b", " ", "f", "o", "r", " ", "i", "n", "f", "o", "r", "m", "a", "t", "i", "o", "n">>
            <=> call.stage = searching)
    /\ call.phase = analyzing_information =>
         (result = <<"O", "r", "g", "a", "n", "i", "z", "i", "n", "g", " ", "r", "e", "s", "e", "a", "r", "c", "h", " ", "d", "a", "t", "a">>
            <=> call.stage = organizing_data)
    /\ call.phase = completed =>
         (result = <<"R", "e", "s", "e", "a", "r", "c", "h", " ", "r", "e", "p", "o", "r", "t", " ", "c", "o", "m", "p", "l", "e", "t", "e", "d">>
            <=> call.stage = report_complete)
    /\ call.phase = idle => result = <<"G", "e", "t", "t", "i", "n", "g", " ", "r", "e", "a", "d", "y", ".", ".", ".">>
    /\ call.phase = initialized => result = <<"S", "e", "t", "t", "i", "n", "g", " ", "u", "p", " ", "r", "e", "s", "e", "a", "r", "c", "h", " ", "p", "a", "r", "a", "m", "e", "t", "e", "r", "s">>


(***************************************************************************)
(* The presenter: ReportCanvas.                                            *)
(* An element that may or may not be rendered is a sequence of zero or one *)
(* elements; text is a sequence of characters.                             *)
(***************************************************************************)
\* What dereferencing null or undefined without ?. throws.
TypeError == <<"TypeError">>

\* state.f: throws when state is null.
Strict(st, v) == IF DOMAIN st = {} THEN TypeError ELSE v

\* state?.research?.query
queryOf(st) == GetString(GetObject(st, "research"), "query")

\* state?.processing?.report
reportOf(st) == GetString(GetObject(st, "processing"), "report")

\* state?.research?.sources is an array (not null, not undefined).
HasSources(st) == "sources" \in DOMAIN GetObject(st, "research")

\* state?.research?.sources?.length ?? 0
sourcesLength(st) ==
  IF HasSources(st) THEN Len(GetObject(st, "research").sources) ELSE 0

\* "{n} source{n !== 1 ? "s" : ""}"
countOfSources(n) ==
  numberToString(n) \o <<" ", "s", "o", "u", "r", "c", "e">> \o (IF n # 1 THEN <<"s">> ELSE <<>>)

\* {state?.research?.query && (<Research Question card>)}
questionCard(st) ==
  IF Truthy(queryOf(st))
    THEN <<[heading |-> <<"R", "e", "s", "e", "a", "r", "c", "h", " ", "Q", "u", "e", "s", "t", "i", "o", "n">>,
            text |-> Strict(st, queryOf(st))]>>
    ELSE <<>>

\* statusCard without the test of the report.
statusCardWhileRunning(st, run) ==
  IF run THEN <<<<"R", "e", "s", "e", "a", "r", "c", "h", " ", "i", "n", " ", "P", "r", "o", "g", "r", "e", "s", "s">>>> ELSE <<>>

\* {running && !state?.processing?.report && (<Status card>)}
statusCard(st, run) ==
  IF run /\ ~Truthy(reportOf(st))
    THEN <<<<"R", "e", "s", "e", "a", "r", "c", "h", " ", "i", "n", " ", "P", "r", "o", "g", "r", "e", "s", "s">>>>
    ELSE <<>>

\* The first branch of the report card: the report handed to ReactMarkdown.
markdownCard(st) ==
  IF Truthy(reportOf(st)) THEN <<reportOf(st)>> ELSE <<>>

\* The second branch of the report card: heading, message and, when there
\* are sources, their count.
placeholderCard(st, run) ==
  IF Truthy(reportOf(st)) THEN <<>>
  ELSE <<[heading |-> IF run THEN <<"G", "e", "n", "e", "r", "a", "t", "i", "n", "g", " ", "R", "e", "p", "o", "r", "t">>
                      ELSE <<"R", "e", "a", "d", "y", " ", "t", "o", " ", "R", "e", "s", "e", "a", "r", "c", "h">>,
          message |-> IF run THEN <<"Y", "o", "u", "r", " ", "r", "e", "s", "e", "a", "r", "c", "h", " ", "r", "e", "p", "o", "r", "t", " ", "w", "i", "l", "l", " ", "a", "p", "p", "e", "a", "r", " ", "h", "e", "r", "e", " ", "o", "n", "c", "e", " ", "t", "h", "e", " ", "a", "n", "a", "l", "y", "s", "i", "s", " ", "i", "s", " ", "c", "o", "m", "p", "l", "e", "t", "e", ".">>
                      ELSE <<"A", "s", "k", " ", "m", "e", " ", "t", "o", " ", "r", "e", "s", "e", "a", "r", "c", "h", " ", "a", "n", "y", " ", "t", "o", "p", "i", "c", " ", "a", "n", "d", " ", "I", "'", "l", "l", " ", "g", "e", "n", "e", "r", "a", "t", "e", " ", "a", " ", "c", "o", "m", "p", "r", "e", "h", "e", "n", "s", "i", "v", "e", ",", " ", "w", "e", "l", "l", "-", "s", "t", "r", "u", "c", "t", "u", "r", "e", "d", " ", "r", "e", "p", "o", "r", "t", " ", "f", "o", "r", " ", "y", "o", "u", ".">>,
          badge |-> IF sourcesLength(st) > 0
                      THEN <<countOfSources(sourcesLength(st)) \o <<" ", "f", "o", "u", "n", "d">>>>
                      ELSE <<>>]>>

\* One entry of the sources list.
sourceItem(resource, index) ==
  [index |-> numberToString(index + 1),
   title |-> resource.title,
   href |-> resource.url,
   snippet |-> IF Truthy(resource.snippet) THEN <<resource.snippet>> ELSE <<>>,
   url |-> resource.url]

\* {state?.research?.sources && state.research?.sources?.length > 0 && (...)}
sourcesCard(st) ==
  IF HasSources(st) /\ sourcesLength(st) > 0
    THEN <<[heading |-> <<"R", "e", "s", "e", "a", "r", "c", "h", " ", "S", "o", "u", "r", "c", "e", "s">>,
            count |-> Strict(st, countOfSources(sourcesLength(st))
                                   \o <<" ", "u", "s", "e", "d", " ", "i", "n", " ", "t", "h", "i", "s", " ", "r", "e", "s", "e", "a", "r", "c", "h">>),
            items |-> [i \in 1..sourcesLength(st) |->
                         sourceItem(GetObject(st, "research").sources[i],
                                    i - 1)]]>>
    ELSE <<>>

ReportCanvas(st, run) ==
  [question |-> questionCard(st),
   status |-> statusCard(st, run),
   markdown |-> markdownCard(st),
   placeholder |-> placeholderCard(st, run),
   sources |-> sourcesCard(st)]


(***************************************************************************)
(* One pass of the page over a given state: the progress derivation and    *)
(* the presenter.                                                          *)
(***************************************************************************)
\* Sources the agent may report: one without a snippet, one with.
SourcePool ==
  { [title |-> <<"A">>, url |-> <<"h", "t", "t", "p", ":", "/", "/", "x", ".", "c", "o", "m">>, snippet |-> Undefined],
    [title |-> <<"B">>, url |-> <<"h", "t", "t", "p", "s", ":", "/", "/", "y", ".", "o", "r", "g", "/", "b">>, snippet |-> <<"b", ".">>] }

RECURSIVE SourceListsOf(_)
SourceListsOf(n) ==
  IF n = 0 THEN {<<>>}
  ELSE SourceListsOf(n - 1)
         \cup {Append(l, r) : l \in {m \in SourceListsOf(n - 1) : Len(m) = n - 1},
                              r \in SourcePool}

SourceLists == SourceListsOf(MaxSources)

\* The report: null, the empty string, or markdown.
ReportInputs == {Undefined, <<>>, <<"#", " ", "T", "i", "t", "l", "e">>}

QueryInputs == {<<>>, <<"t", "l", "a">>}

\* Fully populated states.
FullStates ==
  {[status |-> [phase |-> p, error |-> Undefined],
    research |-> [query |-> q, stage |-> s, sources_found |-> Len(l),
                  sources |-> l],
    processing |-> [report |-> r]] :
      p \in {idle, gathering_information, completed},
      q \in QueryInputs,
      s \in {not_started, report_complete},
      l \in SourceLists,
      r \in ReportInputs}

\* A state with one of its parts left out.
Without(st, part) == [f \in DOMAIN st \ {part} |-> st[f]]

\* null, and states that lack status, research, processing or sources.
PartialStates ==
  {NoObject}
    \cup {Without(st, part) : st \in FullStates,
                              part \in {"status", "research", "processing"}}
    \cup {[st EXCEPT !.research = Without(st.research, "sources")] :
            st \in FullStates}

PageStates == FullStates \cup PartialStates

PageInit ==
  /\ variant = "always"
  /\ state \in PageStates
  /\ running \in BOOLEAN
  /\ isResearchInProgress = FALSE
  /\ timers = <<>>
  /\ now = 0
  /\ runId = 0
  /\ endEvents = <<>>
  /\ stopCalls = <<>>
  /\ steps = <<>>
  /\ logs = <<>>
  /\ view = NullView
  /\ call = NoCall
  /\ result = NoResult

\* The page's render: the progress logs of the state, then the presenter.
Present ==
  /\ steps' = getStepsFromState(state)
  /\ logs' = toLogEntries(steps')
  /\ view' = Progress(logs', state)
  /\ result' = ReportCanvas(state, running)
  /\ UNCHANGED <<call, variant, state, running, isResearchInProgress, timers,
                 now, runId, endEvents, stopCalls>>

PageNext == Present

PageSpec == PageInit /\ [][PageNext]_vars

\* The pass has run.
Presented == steps # <<>>

\* C15 (as written): the report is rendered iff state.processing.report is
\* non-null, otherwise exactly one placeholder is rendered, headed
\* "Generating Report" when running and "Ready to Research" when not; the
\* in-progress indicator is rendered iff running and the report is null.
C15_ReportIffNonNull ==
  Presented =>
    /\ Len(result.markdown) = 1 <=> reportOf(state) # Undefined
    /\ Len(result.placeholder) = 1 <=> reportOf(state) = Undefined
    /\ Len(result.status) = 1 <=> (running /\ reportOf(state) = Undefined)

\* C15 (amended): the report is rendered, as the markdown of
\* state.processing.report, iff it is neither null nor the empty string;
\* otherwise exactly one placeholder is rendered, headed "Generating Report"
\* when running and "Ready to Research" when not; the in-progress indicator
\* is rendered iff running and the report is null or empty.
C15_ReportIffNonEmpty ==
  Presented =>
    LET has == reportOf(state) \notin {Undefined, <<>>}
    IN  /\ has => result.markdown = <<reportOf(state)>>
                    /\ result.placeholder = <<>>
        /\ ~has => /\ result.markdown = <<>>
                   /\ Len(result.placeholder) = 1
                   /\ result.placeholder[1].heading =
                        IF running THEN <<"G", "e", "n", "e", "r", "a", "t", "i", "n", "g", " ", "R", "e", "p", "o", "r", "t">>
                        ELSE <<"R", "e", "a", "d", "y", " ", "t", "o", " ", "R", "e", "s", "e", "a", "r", "c", "h">>
        /\ result.status = IF running /\ ~has
                             THEN <<<<"R", "e", "s", "e", "a", "r", "c", "h", " ", "i", "n", " ", "P", "r", "o", "g", "r", "e", "s", "s">>>> ELSE <<>>

\* A running pass over an empty report shows the placeholder and indicator.
C15_Witness ==
  /\ Presented
  /\ running
  /\ reportOf(state) = <<>>
  /\ result.markdown = <<>>
  /\ Len(result.placeholder) = 1
  /\ Len(result.status) = 1


\* The state with every absent part filled with its default: phase idle,
\* stage not_started, empty query, zero sources, no report.
Defaulted(st) ==
  LET research == GetObject(st, "research")
      phase == GetString(GetObject(st, "status"), "phase")
      stage == GetString(research, "stage")
  IN  [status |-> [phase |-> IF Truthy(phase) THEN phase ELSE idle,
                   error |-> Undefined],
       research |->
         [query |-> IF Truthy(queryOf(st)) THEN queryOf(st) ELSE <<>>,
          stage |-> IF Truthy(stage) THEN stage ELSE not_started,
          sources_found |-> IF HasSourcesFound(st) THEN sourcesFoundOf(st)
                            ELSE 0,
          sources |-> IF HasSources(st) THEN research.sources ELSE <<>>],
       processing |-> [report |-> reportOf(st)]]

\* No element of the presenter's output is a thrown error.
NoTypeError ==
  /\ \A i \in 1..Len(result.question) : result.question[i].text # TypeError
  /\ \A i \in 1..Len(result.sources) : result.sources[i].count # TypeError

\* C16: for a state that is null or lacks status, research, processing or
\* sources, the steps, the logs, the source count and the presenter's output
\* are those of the state filled with the defaults (phase idle, stage
\* not_started, empty query, zero sources), and nothing fails; for null that
\* is five pending steps, no source count, no question, no sources card and
\* a placeholder without a count.
C16_TotalOverPartialState ==
  Presented =>
    /\ steps = getStepsFromState(Defaulted(state))
    /\ Len(steps) = Len(allPhases)
    /\ logs = toLogEntries(getStepsFromState(Defaulted(state)))
    /\ view = Progress(logs, Defaulted(state))
    /\ result = ReportCanvas(Defaulted(state), running)
    /\ NoTypeError
    /\ state = NoObject =>
         /\ \A i \in 1..Len(steps) : ~steps[i].current /\ ~steps[i].completed
         /\ \A i \in 1..Len(logs) : ~logs[i].done
         /\ view.sources = Undefined
         /\ result.question = <<>>
         /\ result.sources = <<>>
         /\ result.markdown = <<>>
         /\ Len(result.placeholder) = 1
         /\ result.placeholder[1].badge = <<>>

\* The page has rendered a null state while running.
C16_Witness ==
  /\ Presented
  /\ state = NoObject
  /\ running
  /\ result.status # <<>>


(***************************************************************************)
(* Who writes the research state.                                          *)
(***************************************************************************)
\* Every step that changes the state is a state update from the agent.
C17_OnlyUpdatesWrite ==
  [][state' # state => \E s \in UpdateStates : StateUpdate(s)]_vars

\* The handler, the delayed stop and the render (derivation, log entries,
\* markup with its truncated text) leave the state as it was.
C17_OthersLeaveState ==
  [][state' # state =>
       ~((\E n \in NodeNames : Handler(n)) \/ FireTimer
           \/ (\E status \in RenderStatuses : Render(status)))]_vars

\* Building the markup of given logs changes neither a log entry nor the
\* state.
C17_MarkupLeavesLogs == [][logs' = logs /\ state' = state]_vars

\* C17: the research state is changed only by state updates from the agent;
\* the terminal-node handler, the delayed stop and a render pass with its
\* step derivation, log entries and markup leave every field of it
\* unchanged.
C17_StateFrame == C17_OnlyUpdatesWrite /\ C17_OthersLeaveState

\* The state has been updated, a render has derived steps from it, and a
\* delayed stop has fired.
C17_Witness ==
  /\ state # InitialState
  /\ steps # <<>>
  /\ stopCalls # <<>>


(***************************************************************************)
(* The two pages side by side.                                             *)
(***************************************************************************)
\* The logs a render of page v builds from state st under a status.
logsOfRender(v, status, st) ==
  toLogEntries(IF renderShows(v, status) THEN getStepsFromState(st) ELSE <<>>)

\* C18: from any state reached, the two pages build the same log entries
\* and the same markup for status inProgress and complete, and a render
\* with any status leaves the in-progress flag with the same value on both
\* pages (node events are handled by the same code on both).
C18_VariantsAgree ==
  runId > 0 =>
    /\ \A status \in {"inProgress", "complete"} :
         /\ logsOfRender("always", status, state)
              = logsOfRender("gated", status, state)
         /\ renderView("always", status,
                       logsOfRender("always", status, state), state)
              = renderView("gated", status,
                           logsOfRender("gated", status, state), state)
    /\ \A status \in RenderStatuses :
         renderFlag("always", status, isResearchInProgress)
           = renderFlag("gated", status, isResearchInProgress)


(***************************************************************************)
(* Which log entries are done.                                             *)
(***************************************************************************)
\* Index from 0 of the current phase in the fixed sequence, -1 when the
\* phase is idle, absent or unknown.
PhaseIndex(st) == PhasePosition(PhaseHeld(st)) - 1

\* The log entries that are done.
DoneEntries == {i \in 1..Len(logs) : logs[i].done}

\* C19: whatever the current phase (in the sequence, idle, absent or
\* unknown), log entry i (from 0) is done iff i is less than the index of
\* the current phase in the fixed sequence (-1 when not in it); done equals
\* the step's completed flag; the number of done entries is that index (0
\* when not in the sequence); the entry of the current step is not done, so
\* in phase completed the last entry is not done and never are all five
\* done; the markup shows an entry as done iff it is done.
C19_DoneBeforeCurrent ==
  steps # <<>> =>
    /\ Len(logs) = 5
    /\ \A i \in 1..Len(logs) :
         /\ logs[i].done <=> i - 1 < PhaseIndex(state)
         /\ logs[i].done = steps[i].completed
         /\ steps[i].current => ~logs[i].done
         /\ view.items[i].done = logs[i].done
    /\ Cardinality(DoneEntries) =
         IF PhaseIndex(state) < 0 THEN 0 ELSE PhaseIndex(state)
    /\ PhaseHeld(state) = completed => ~logs[5].done
    /\ Cardinality(DoneEntries) < 5

\* The logs of phase completed: four entries done, the last one not.
C19_Witness ==
  /\ PhaseHeld(state) = completed
  /\ Len(logs) = 5
  /\ DoneEntries = 1..4
  /\ steps[5].current
  /\ ~view.items[5].done


(***************************************************************************)
(* Who clears the in-progress flag, and who reads it.                      *)
(***************************************************************************)
\* The flag goes from true to false only in a step that fires a delayed
\* stop.
C20_OnlyStopClears ==
  [][(isResearchInProgress /\ ~isResearchInProgress') => FireTimer]_vars

\* A render never clears the flag, and one that shows the progress sets it,
\* status complete on the status-gated page included, whether or not a run
\* is going on: a step that clears the flag is no render, and a step that
\* ends with the flag false is no render that shows the progress.
C20_RenderSets ==
  [][/\ (isResearchInProgress /\ ~isResearchInProgress') =>
          \A status \in RenderStatuses : ~Render(status)
     /\ ~isResearchInProgress' =>
          /\ \A status \in RenderStatuses :
               renderShows(variant, status) => ~Render(status)
          /\ variant = "gated" => ~Render("complete")]_vars

\* The flag is not read: whether the handler or the delayed stop can act is
\* settled by the run, the timers and the time alone.
C20_FlagNotInGuards ==
  /\ ENABLED FireTimer <=> (timers # <<>> /\ Head(timers).due <= now)
  /\ ENABLED Handler(EndNode) <=>
       (running /\ now <= MaxTime /\ Len(endEvents) < MaxEnds)

\* ... and what they do to the timers and the stop calls is the same
\* whatever the flag: a terminal event always schedules a stop, a due timer
\* always calls stop, a render touches neither and shows the progress
\* according to the page and the status alone.
C20_FlagNotInEffects ==
  [][/\ Handler(EndNode) => Len(timers') = Len(timers) + 1
     /\ FireTimer => Len(stopCalls') = Len(stopCalls) + 1
     /\ (timers' # timers \/ stopCalls' # stopCalls \/ running' # running) =>
          \A status \in RenderStatuses : ~Render(status)
     /\ \A status \in RenderStatuses :
          (steps' # <<>>) # renderShows(variant, status) => ~Render(status)]_vars

\* C20: the in-progress flag is set to false only by a fired delayed stop;
\* no render clears it (on the status-gated page a render with status
\* complete sets it), so a render after the stop has fired leaves it true
\* while no run is going on; and no handler, render or stop decision
\* depends on it.
C20_FlagClearedOnlyByStop ==
  /\ C20_OnlyStopClears
  /\ C20_RenderSets
  /\ []C20_FlagNotInGuards
  /\ C20_FlagNotInEffects

\* On the status-gated page a render came after the stop had fired: the
\* flag is true, the run is stopped and no stop is pending.
C20_Witness ==
  /\ variant = "gated"
  /\ stopCalls # <<>>
  /\ ~running
  /\ timers = <<>>
  /\ isResearchInProgress

====
